---- MODULE Spec2Model ----
(***************************************************************************)
(* Model of the two ND/JSON -> Avro converters of 20230125-avro_three_ways: *)
(*   python-avro/convert.py      (streaming: DataFileWriter.append)         *)
(*   python-fastavro/convert.py  (batch: list comprehension, one writer())  *)
(* Both programs are run side by side on the same command line and files,   *)
(* each with its own destination file, so that their results can be         *)
(* compared state by state.                                                 *)
(***************************************************************************)
EXTENDS Integers, Sequences, FiniteSets, TLC

VARIABLES
    argv_len,       \* len(sys.argv): the script name plus the positional arguments
    schema_state,   \* the schema file: "ok", "missing" or "malformed"
    json_ok,        \* whether open(json_file, "r") succeeds
    dest_ok,        \* whether open(avro_file, "wb") succeeds
    input,          \* the lines of the JSON file
    proc            \* per variant: the state of the running script

vars == <<argv_len, schema_state, json_ok, dest_ok, input, proc>>
env  == <<argv_len, schema_state, json_ok, dest_ok, input>>

Variants == {"avro", "fastavro"}

-----------------------------------------------------------------------------
(* Bounds of the model.                                                     *)

MaxArgv  == 5      \* longest sys.argv tried
MaxLines == 2      \* longest input file built from SampleLines
MaxFrac  == 3      \* most fractional digits in the generated totalValue texts

-----------------------------------------------------------------------------
(* Texts.  A numeric text is a sequence of one-character strings.           *)

DigitChars == {"0", "1", "2", "3", "4", "5", "6", "7", "8", "9"}

DigitVal(c) ==
    CASE c = "0" -> 0 [] c = "1" -> 1 [] c = "2" -> 2 [] c = "3" -> 3
      [] c = "4" -> 4 [] c = "5" -> 5 [] c = "6" -> 6 [] c = "7" -> 7
      [] c = "8" -> 8 [] c = "9" -> 9

AllZero(ds) == \A k \in 1..Len(ds) : ds[k] = 0

RECURSIVE StripZeros(_)
\* str.lstrip('0') or '0' on a coefficient held as a sequence of digits.
StripZeros(ds) ==
    IF Len(ds) = 0 THEN <<0>>
    ELSE IF Len(ds) > 1 /\ ds[1] = 0 THEN StripZeros(Tail(ds))
    ELSE ds

Zeros(n) == [k \in 1..n |-> 0]

-----------------------------------------------------------------------------
(* decimal.Decimal, as the triple (sign, coefficient digits, exponent).     *)

Prec == 28      \* decimal.getcontext().prec, the default context precision

NoDecimal == [ok |-> FALSE, sign |-> 0, digits |-> <<0>>, exp |-> 0]

\* decimal.Decimal(text): [sign] digits [ "." digits ], at least one digit;
\* anything else raises decimal.InvalidOperation (ok = FALSE).
ParseDecimal(text) ==
    LET neg   == Len(text) > 0 /\ text[1] = "-"
        body  == IF neg THEN Tail(text) ELSE text
        dots  == {k \in 1..Len(body) : body[k] = "."}
        chars == {k \in 1..Len(body) : body[k] \in DigitChars}
    IN  IF \/ Cardinality(dots) > 1
           \/ chars = {}
           \/ Cardinality(dots) + Cardinality(chars) # Len(body)
        THEN NoDecimal
        ELSE LET dot  == IF dots = {} THEN Len(body) + 1 ELSE CHOOSE k \in dots : TRUE
                 ip   == SubSeq(body, 1, dot - 1)
                 fp   == SubSeq(body, dot + 1, Len(body))
                 all  == ip \o fp
             IN  [ok     |-> TRUE,
                  sign   |-> IF neg THEN 1 ELSE 0,
                  digits |-> StripZeros([k \in 1..Len(all) |-> DigitVal(all[k])]),
                  exp    |-> 0 - Len(fp)]

\* Decimal.shift(n), n >= 0: the coefficient is padded with zeros to Prec
\* digits (or cut to its last Prec digits), n zeros are appended, and the last
\* Prec digits are kept; sign and exponent are unchanged.
shift(d, n) ==
    LET topad   == Prec - Len(d.digits)
        rotdig  == IF topad > 0 THEN Zeros(topad) \o d.digits
                   ELSE SubSeq(d.digits, 1 - topad, Len(d.digits))
        shifted == rotdig \o Zeros(n)
        kept    == SubSeq(shifted, Len(shifted) - Prec + 1, Len(shifted))
    IN  [d EXCEPT !.digits = StripZeros(kept)]

RECURSIVE Increment(_)
\* coefficient + 1
Increment(ds) ==
    IF Len(ds) = 0 THEN <<1>>
    ELSE IF ds[Len(ds)] < 9
         THEN [ds EXCEPT ![Len(ds)] = @ + 1]
         ELSE Increment(SubSeq(ds, 1, Len(ds) - 1)) \o <<0>>

\* Decimal._round_half_even at position n of the coefficient: TRUE when the
\* coefficient's first n digits are to be incremented.
RoundsUpHalfEven(ds, n) ==
    LET rest == SubSeq(ds, n + 1, Len(ds))
        half == rest[1] = 5 /\ AllZero(Tail(rest))
    IN  IF half
        THEN n > 0 /\ ds[n] % 2 = 1
        ELSE rest[1] >= 5

\* Decimal.to_integral_value(rounding=ROUND_HALF_EVEN)
to_integral_value(d) ==
    IF d.exp >= 0 THEN d
    ELSE LET n == Len(d.digits) + d.exp
         IN  IF n < 0
             THEN [d EXCEPT !.digits = <<0>>, !.exp = 0]
             ELSE LET head == SubSeq(d.digits, 1, n)
                      up   == RoundsUpHalfEven(d.digits, n)
                  IN  [d EXCEPT !.digits = IF up THEN Increment(head)
                                           ELSE StripZeros(head),
                                !.exp = 0]

\* int(text): [sign] digits, anything else raises ValueError (ok = FALSE).
RECURSIVE DigitsValue(_)
DigitsValue(cs) ==
    IF Len(cs) = 0 THEN 0
    ELSE 10 * DigitsValue(SubSeq(cs, 1, Len(cs) - 1)) + DigitVal(cs[Len(cs)])

ParseInt(text) ==
    LET neg  == Len(text) > 0 /\ text[1] = "-"
        body == IF neg THEN Tail(text) ELSE text
    IN  IF Len(body) = 0 \/ \E k \in 1..Len(body) : body[k] \notin DigitChars
        THEN [ok |-> FALSE, value |-> 0]
        ELSE [ok |-> TRUE,
              value |-> IF neg THEN 0 - DigitsValue(body) ELSE DigitsValue(body)]

-----------------------------------------------------------------------------
(* Timestamps.  A timestamp text is its clock reading (minutes counted from *)
(* 2023-01-25T00:00:00 as written, before any zone is applied) followed by  *)
(* a zone designator: "" for none.  junk marks a text that is no date.      *)

ZoneOffset(zone) ==
    CASE zone = "Z"      -> 0
      [] zone = "+00:00" -> 0
      [] zone = "-05:00" -> 0 - 300
      [] zone = "+01:00" -> 60
      [] zone = "+05:30" -> 330

NoDatetime == [ok |-> FALSE, wall |-> 0, aware |-> FALSE, utcoffset |-> 0]

\* dateutil.parser.parse(text): a datetime with the clock reading of the
\* text, naive (tzinfo None) when the text has no zone and otherwise aware
\* with the zone's offset; dateutil.parser.ParserError on a text that is no
\* date (ok = FALSE).
parse(text) ==
    IF text.junk THEN NoDatetime
    ELSE IF text.zone = ""
         THEN [ok |-> TRUE, wall |-> text.wall, aware |-> FALSE, utcoffset |-> 0]
         ELSE [ok |-> TRUE, wall |-> text.wall, aware |-> TRUE,
               utcoffset |-> ZoneOffset(text.zone)]

\* datetime.replace(tzinfo=timezone.utc): every field of the datetime is
\* kept and tzinfo is set to UTC; no conversion takes place.
replace_tzinfo_utc(dt) == [dt EXCEPT !.aware = TRUE, !.utcoffset = 0]

\* The absolute instant of an aware datetime, in minutes.
Instant(dt) == dt.wall - dt.utcoffset

-----------------------------------------------------------------------------
(* transform_record.  A line is either no JSON at all (json = FALSE) or a   *)
(* JSON object obj whose numbers json.loads leaves as texts (parse_float =  *)
(* parse_int = str).  The result carries the exception raised, or "none".   *)

NoRecord == [eventType |-> "", eventId |-> "", timestamp |-> NoDatetime,
             userId |-> "", itemsInCart |-> 0, totalValue |-> NoDecimal]

Raise(e) == [err |-> e, rec |-> NoRecord]

\* The totalValue expression of each variant.
totalValue(v, d) ==
    IF v = "avro" THEN to_integral_value(shift(d, 2)) ELSE d

\* The timestamp expression (the same in both variants).
timestamp(text) == replace_tzinfo_utc(parse(text))

\* The dict display is evaluated key by key in source order, so the first
\* failing expression decides the exception.
transform_record(v, line) ==
    IF ~line.json THEN Raise("JSONDecodeError")
    ELSE LET data == line.obj
             has(k) == k \in DOMAIN data
         IN  IF ~has("eventType") \/ ~has("eventId") \/ ~has("timestamp")
             THEN Raise("KeyError")
             ELSE IF ~parse(data.timestamp).ok THEN Raise("ParserError")
             ELSE IF ~has("userId") \/ ~has("itemsInCart") THEN Raise("KeyError")
             ELSE IF ~ParseInt(data.itemsInCart).ok THEN Raise("ValueError")
             ELSE IF ~has("totalValue") THEN Raise("KeyError")
             ELSE IF ~ParseDecimal(data.totalValue).ok THEN Raise("InvalidOperation")
             ELSE [err |-> "none",
                   rec |-> [eventType   |-> data.eventType,
                            eventId     |-> data.eventId,
                            timestamp   |-> timestamp(data.timestamp),
                            userId      |-> data.userId,
                            itemsInCart |-> ParseInt(data.itemsInCart).value,
                            totalValue  |-> totalValue(v, ParseDecimal(data.totalValue))]]

-----------------------------------------------------------------------------
(* Inputs.                                                                  *)

Ts(wall, zone) == [wall |-> wall, zone |-> zone, junk |-> FALSE]

Line(id, ts, items, total) ==
    [json |-> TRUE,
     obj  |-> [eventType |-> "addItem", eventId |-> id, timestamp |-> ts,
               userId |-> "u-" \o id, itemsInCart |-> items, totalValue |-> total]]

Without(line, key) ==
    [line EXCEPT !.obj = [k \in DOMAIN line.obj \ {key} |-> line.obj[k]]]

Good1 == Line("e1", Ts(600, "Z"), <<"3">>, <<"1", "9", ".", "9", "9", "5">>)
Good2 == Line("e2", Ts(615, ""), <<"1", "2">>, <<"2", ".", "5", "0">>)

NotJson      == [json |-> FALSE, obj |-> [k \in {} |-> ""]]
NoEventId    == Without(Good1, "eventId")
BadTimestamp == [Good1 EXCEPT !.obj.timestamp = [wall |-> 0, zone |-> "", junk |-> TRUE]]
BadNumber    == [Good1 EXCEPT !.obj.itemsInCart = <<"3", ".", "x">>]
BadDecimal   == [Good1 EXCEPT !.obj.totalValue = <<"1", ".", "2", ".", "3">>]

SampleLines == {Good1, Good2, NotJson, NoEventId, BadTimestamp, BadNumber}

SeqsUpTo(S, n) == UNION {[1..k -> S] : k \in 0..n}

\* The totalValue texts tried: every sign, integer part and fractional part
\* below, and a few texts written out.
IntParts   == {<<"0">>, <<"2">>, <<"1", "9">>}
FracDigits == {"0", "4", "5", "9"}
Fracs      == SeqsUpTo(FracDigits, MaxFrac)
Signs      == {<< >>, <<"-">>}

Digits24 == <<"1", "2", "3", "4", "5", "6", "7", "8", "9", "0", "1", "2",
              "3", "4", "5", "6", "7", "8", "9", "0", "1", "2", "3", "4">>

DecimalTexts ==
    {s \o ip \o (IF fp = << >> THEN << >> ELSE <<".">> \o fp) :
        s \in Signs, ip \in IntParts, fp \in Fracs}
    \cup {<<"1", "9", ".", "9", "8", "5">>,
          Digits24 \o <<".", "5", "6">>,              \* 26 digits
          Digits24 \o <<"5", ".", "6", "7">>,         \* 27 digits
          Digits24 \o <<"5", "6", ".", "7", "5">>}    \* 28 digits

Zones == {"", "Z", "+00:00", "-05:00", "+01:00", "+05:30"}
Walls == {0, 600, 1425}
TimestampTexts == {Ts(w, z) : w \in Walls, z \in Zones}

RichLines ==
    {[Good1 EXCEPT !.obj.totalValue = t] : t \in DecimalTexts}
    \cup {[Good1 EXCEPT !.obj.timestamp = t] : t \in TimestampTexts}
    \cup {BadDecimal, Without(Good1, "totalValue"), Without(Good1, "userId")}

-----------------------------------------------------------------------------
(* The scripts.                                                             *)

UsageArgvLen == 4      \* len(sys.argv) != 4

\* The destination file: whether this run created or truncated it, whether
\* the container header has been written, the records of the blocks written,
\* and whether the writer has completed (flushed everything it was handed).
\* What is written to a file object that is never closed still reaches the
\* file when the interpreter exits.
NoDest == [truncated |-> FALSE, header |-> FALSE, records |-> << >>, finalized |-> FALSE]

Start ==
    [pc |-> "start", exc |-> "none", exit_code |-> 0 - 1, stderr |-> "",
     open |-> {}, opened |-> {}, schema |-> FALSE, lines |-> << >>, idx |-> 1,
     transformed |-> << >>, buf |-> << >>, dest |-> NoDest]

Init ==
    /\ \/ /\ argv_len \in 1..MaxArgv
          /\ schema_state \in {"ok", "missing", "malformed"}
          /\ json_ok \in BOOLEAN
          /\ dest_ok \in BOOLEAN
          /\ input \in SeqsUpTo(SampleLines, MaxLines)
       \/ /\ argv_len = UsageArgvLen
          /\ schema_state = "ok"
          /\ json_ok = TRUE
          /\ dest_ok = TRUE
          /\ input \in {<<l>> : l \in RichLines}
    /\ proc = [v \in Variants |-> Start]

\* An exception that reaches the top level: the traceback goes to stderr and
\* the interpreter exits with status 1.
Die(p, e) == [p EXCEPT !.pc = "exit", !.exc = e, !.exit_code = 1, !.stderr = "traceback"]

Closed(p, h) == [p EXCEPT !.open = @ \ {h}]
Opened(p, h) == [p EXCEPT !.open = @ \cup {h}, !.opened = @ \cup {h}]

Becomes(v, p) == proc' = [proc EXCEPT ![v] = p] /\ UNCHANGED env

\* An argument check that lets extra arguments through.
TooFewArgs(n) == n < UsageArgvLen

\* len(sys.argv) != 4
WrongArgCount(n) == n # UsageArgvLen

\* if len(sys.argv) != 4: print(__doc__, file=sys.stderr); sys.exit(1)
CheckArgs(v) ==
    /\ proc[v].pc = "start"
    /\ Becomes(v, IF WrongArgCount(argv_len)
                  THEN [proc[v] EXCEPT !.pc = "exit", !.exit_code = 1, !.stderr = "usage"]
                  ELSE [proc[v] EXCEPT !.pc = "open_schema"])

\* with open(schema_file) as f:
OpenSchema(v) ==
    /\ proc[v].pc = "open_schema"
    /\ Becomes(v, IF schema_state = "missing"
                  THEN Die(proc[v], "FileNotFoundError")
                  ELSE Opened([proc[v] EXCEPT !.pc = "parse_schema"], "schema"))

\* schema = avro.schema.parse(f.read()) / fastavro.parse_schema(json.load(f))
ParseSchema(v) ==
    /\ proc[v].pc = "parse_schema"
    /\ Becomes(v, IF schema_state = "malformed"
                  THEN [proc[v] EXCEPT !.pc = "exit_schema_with", !.exc = "SchemaParseException"]
                  ELSE [proc[v] EXCEPT !.pc = "exit_schema_with", !.schema = TRUE])

\* Both scripts opening the destination first, and both opening it last.
AfterSchemaDestFirst(v) == "open_dest"
AfterSchemaJsonFirst(v) == "open_json"

\* The statement that follows the schema's with block: python-avro opens the
\* destination (line 48), python-fastavro opens the JSON file (line 46).
AfterSchema(v) == IF v = "avro" THEN "open_dest" ELSE "open_json"

\* leaving the schema file's with block: the file is closed, and a pending
\* exception goes on to the top level.
ExitSchemaWith(v) ==
    /\ proc[v].pc = "exit_schema_with"
    /\ LET p == Closed(proc[v], "schema")
       IN  Becomes(v, IF p.exc # "none" THEN Die(p, p.exc)
                      ELSE [p EXCEPT !.pc = AfterSchema(v)])

\* open(avro_file, "wb"): the destination is created or truncated.  In
\* python-avro the DataFileWriter is built around it and its with block
\* entered; the writer puts the header out with its first block.
OpenDest(v) ==
    /\ proc[v].pc = "open_dest"
    /\ Becomes(v, IF ~dest_ok
                  THEN Die(proc[v], "OSError")
                  ELSE Opened([proc[v] EXCEPT
                                  !.pc = IF v = "avro" THEN "open_json" ELSE "write",
                                  !.dest = [truncated |-> TRUE, header |-> FALSE,
                                            records |-> << >>, finalized |-> FALSE]],
                              "avro"))

\* with open(json_file, "r") as f: in python-avro a failure unwinds through
\* the writer's with block, in python-fastavro it reaches the top level.
OpenJson(v) ==
    /\ proc[v].pc = "open_json"
    /\ Becomes(v, IF json_ok
                  THEN Opened([proc[v] EXCEPT !.pc = "readlines"], "json")
                  ELSE IF v = "avro"
                       THEN [proc[v] EXCEPT !.pc = "exit_writer_with",
                                            !.exc = "FileNotFoundError"]
                       ELSE Die(proc[v], "FileNotFoundError"))

\* f.readlines()
ReadLines(v) ==
    /\ proc[v].pc = "readlines"
    /\ Becomes(v, [proc[v] EXCEPT !.pc = "loop", !.lines = input, !.idx = 1])

\* the loop variable moves to the next line
NextIndex(i) == i + 1

\* Records accumulated newest first.
PrependRecord(records, r) == <<r>> \o records

\* DataFileWriter.append(datum) / the list comprehension's accumulation
AppendRecord(records, r) == Append(records, r)

\* DataFileWriter._write_block(): the header, if not yet written, and the
\* buffered records go to the file as one block.
WriteBlock(p) ==
    [p EXCEPT !.dest.header = TRUE, !.dest.records = @ \o p.buf, !.buf = << >>]

\* python-avro: writer.append(transform_record(line)) for the next line.
\* DataFileWriter.append encodes the datum into the writer's buffer and
\* writes the block out once the buffer holds SYNC_INTERVAL bytes; encoded
\* sizes are not modelled, so `full` says whether that point is reached.
AppendLine ==
    /\ proc["avro"].pc = "loop"
    /\ proc["avro"].idx <= Len(proc["avro"].lines)
    /\ LET p == proc["avro"]
           t == transform_record("avro", p.lines[p.idx])
       IN  IF t.err # "none"
           THEN Becomes("avro", [p EXCEPT !.pc = "exit_json_with", !.exc = t.err])
           ELSE \E full \in BOOLEAN :
                  LET q == [p EXCEPT !.buf = AppendRecord(@, t.rec),
                                     !.idx = NextIndex(@)]
                  IN  Becomes("avro", IF full THEN WriteBlock(q) ELSE q)

\* python-fastavro: one element of [transform_record(line) for line in ...]
TransformLine ==
    /\ proc["fastavro"].pc = "loop"
    /\ proc["fastavro"].idx <= Len(proc["fastavro"].lines)
    /\ LET p == proc["fastavro"]
           t == transform_record("fastavro", p.lines[p.idx])
       IN  Becomes("fastavro",
                   IF t.err # "none"
                   THEN [p EXCEPT !.pc = "exit_json_with", !.exc = t.err]
                   ELSE [p EXCEPT !.transformed = AppendRecord(@, t.rec),
                                  !.idx = NextIndex(@)])

\* the lines are exhausted
LoopDone(v) ==
    /\ proc[v].pc = "loop"
    /\ proc[v].idx > Len(proc[v].lines)
    /\ Becomes(v, [proc[v] EXCEPT !.pc = "exit_json_with"])

\* leaving the JSON file's with block: the file is closed.  In python-avro
\* the writer's with block is left next; in python-fastavro a pending
\* exception reaches the top level, and otherwise the destination is opened.
ExitJsonWith(v) ==
    /\ proc[v].pc = "exit_json_with"
    /\ LET p == Closed(proc[v], "json")
       IN  Becomes(v, IF v = "avro" THEN [p EXCEPT !.pc = "exit_writer_with"]
                      ELSE IF p.exc # "none" THEN Die(p, p.exc)
                      ELSE [p EXCEPT !.pc = "open_dest"])

\* DataFileWriter.close(): flush() writes the buffered block and the file is
\* closed.
WriterClose(p) ==
    Closed([WriteBlock(p) EXCEPT !.dest.finalized = TRUE], "avro")

\* A scoped exit that closes the writer whatever happened in the block.
WriterExitAlwaysCloses(p) == WriterClose(p)

\* DataFileWriter.__exit__(type, value, traceback): "perform a close if
\* there's no exception"; with an exception pending the writer is left as it
\* is, its buffer unwritten and its file open.
WriterExit(p) == IF p.exc = "none" THEN WriterClose(p) ELSE p

\* python-avro: leaving the writer's with block.
ExitWriterWith ==
    /\ proc["avro"].pc = "exit_writer_with"
    /\ LET p == WriterExit(proc["avro"])
       IN  Becomes("avro", IF p.exc # "none" THEN Die(p, p.exc)
                           ELSE [p EXCEPT !.pc = "exit", !.exit_code = 0])

\* python-fastavro: fastavro.writer(f, schema, transformed) writes the header
\* and every record and flushes.
WriteAll ==
    /\ proc["fastavro"].pc = "write"
    /\ Becomes("fastavro",
               [proc["fastavro"] EXCEPT !.pc = "exit_dest_with",
                                        !.dest.header = TRUE,
                                        !.dest.records = proc["fastavro"].transformed,
                                        !.dest.finalized = TRUE])

\* python-fastavro: leaving the destination's with block closes the file.
ExitDestWith ==
    /\ proc["fastavro"].pc = "exit_dest_with"
    /\ Becomes("fastavro",
               [Closed(proc["fastavro"], "avro") EXCEPT !.pc = "exit", !.exit_code = 0])

Next ==
    \/ \E v \in Variants : CheckArgs(v)
    \/ \E v \in Variants : OpenSchema(v)
    \/ \E v \in Variants : ParseSchema(v)
    \/ \E v \in Variants : ExitSchemaWith(v)
    \/ \E v \in Variants : OpenDest(v)
    \/ \E v \in Variants : OpenJson(v)
    \/ \E v \in Variants : ReadLines(v)
    \/ AppendLine
    \/ TransformLine
    \/ \E v \in Variants : LoopDone(v)
    \/ \E v \in Variants : ExitJsonWith(v)
    \/ ExitWriterWith
    \/ WriteAll
    \/ ExitDestWith

Spec == Init /\ [][Next]_vars

-----------------------------------------------------------------------------
(* Vocabulary of the properties.                                            *)

TransformErrors ==
    {"JSONDecodeError", "KeyError", "ParserError", "ValueError", "InvalidOperation"}

WellFormed(f) ==
    \A i \in 1..Len(f) : \A v \in Variants : transform_record(v, f[i]).err = "none"

Transforms(v, f, n) == [i \in 1..n |-> transform_record(v, f[i]).rec]

\* The records handed to the Avro writer so far, on disk or still buffered.
Handed(v) == proc[v].dest.records \o proc[v].buf

\* The results of transform_record so far.
Produced(v) == IF v = "avro" THEN Handed(v) ELSE proc[v].transformed

Exited(v)    == proc[v].pc = "exit"
Succeeded(v) == Exited(v) /\ proc[v].exit_code = 0
Failed(v)    == Exited(v) /\ proc[v].exit_code # 0

\* The first line of f that transform_record fails on, or Len(f) + 1.
FirstBad(v, f) ==
    LET bad == {i \in 1..Len(f) : transform_record(v, f[i]).err # "none"}
    IN  IF bad = {} THEN Len(f) + 1 ELSE CHOOSE i \in bad : \A j \in bad : i <= j

(* Arithmetic on natural numbers written as sequences of digits, used to    *)
(* say what "nearest integer" means without going through the rounding of   *)
(* the decimal module.                                                      *)

RECURSIVE AddCarry(_, _, _)
AddCarry(a, b, c) ==
    IF Len(a) = 0 THEN (IF c = 0 THEN << >> ELSE <<c>>)
    ELSE LET t == a[Len(a)] + b[Len(b)] + c
         IN  AddCarry(SubSeq(a, 1, Len(a) - 1), SubSeq(b, 1, Len(b) - 1), t \div 10)
             \o <<t % 10>>

AddDigits(a, b) ==
    LET n == IF Len(a) > Len(b) THEN Len(a) ELSE Len(b)
    IN  AddCarry(Zeros(n - Len(a)) \o a, Zeros(n - Len(b)) \o b, 0)

LeqDigits(a, b) ==
    LET n  == IF Len(a) > Len(b) THEN Len(a) ELSE Len(b)
        pa == Zeros(n - Len(a)) \o a
        pb == Zeros(n - Len(b)) \o b
    IN  \/ pa = pb
        \/ \E k \in 1..n : pa[k] < pb[k] /\ \A j \in 1..(k - 1) : pa[j] = pb[j]

EqDigits(a, b) == LeqDigits(a, b) /\ LeqDigits(b, a)

\* d times 100, exactly, with an exponent that is not positive.
Times100(d) ==
    IF d.exp + 2 > 0
    THEN [d EXCEPT !.digits = @ \o Zeros(d.exp + 2), !.exp = 0]
    ELSE [d EXCEPT !.exp = @ + 2]

\* r is the integer nearest to x (x.exp <= 0), the even one of the two when x
\* lies midway: with k = -x.exp, |2 r 10^k - 2 X| <= 10^k for the
\* coefficient X of x, and r is even when equality holds.
IsNearestEven(r, x) ==
    LET k  == 0 - x.exp
        a2 == AddDigits(r.digits \o Zeros(k), r.digits \o Zeros(k))
        b2 == AddDigits(x.digits, x.digits)
        h  == <<1>> \o Zeros(k)
    IN  /\ r.ok /\ r.exp = 0 /\ r.sign = x.sign
        /\ LeqDigits(a2, AddDigits(b2, h))
        /\ LeqDigits(b2, AddDigits(a2, h))
        /\ (EqDigits(a2, AddDigits(b2, h)) \/ EqDigits(b2, AddDigits(a2, h)))
              => r.digits[Len(r.digits)] % 2 = 0

-----------------------------------------------------------------------------
(* Properties.                                                              *)

\* C1: for well-formed input, in both variants, the records handed to the
\* Avro writer are at every point the transforms of a prefix of the input
\* lines in input order (none skipped, duplicated or reordered), and a run
\* that succeeds has written exactly one record per input line.
C1_OrderPreserved ==
    WellFormed(input) =>
        \A v \in Variants :
            /\ Len(Handed(v)) <= Len(input)
            /\ Handed(v) = Transforms(v, input, Len(Handed(v)))
            /\ Len(Produced(v)) <= Len(input)
            /\ Produced(v) = Transforms(v, input, Len(Produced(v)))
            /\ Succeeded(v) => /\ Len(proc[v].dest.records) = Len(input)
                               /\ proc[v].dest.records = Transforms(v, input, Len(input))

C1_Witness ==
    /\ Len(input) = 2 /\ input[1] # input[2] /\ WellFormed(input)
    /\ \A v \in Variants : Succeeded(v) /\ Len(proc[v].dest.records) = 2

\* C2: transform_record normalizes the timestamp to UTC in both variants: a
\* timestamp with a zone offset becomes the same absolute instant in UTC, and
\* one without an offset keeps its clock value, tagged UTC.
C2_TimestampNormalizedToUTC ==
    \A v \in Variants : \A i \in 1..Len(Produced(v)) :
        LET parsed == parse(input[i].obj.timestamp)
            out    == Produced(v)[i].timestamp
        IN  /\ out.aware /\ out.utcoffset = 0
            /\ parsed.aware => Instant(out) = Instant(parsed)
            /\ ~parsed.aware => out.wall = parsed.wall

\* An Avro container has no footer: a header followed by whole blocks reads
\* back as a complete file.
Readable(d) == d.truncated /\ d.header

\* C3: in both variants, if a line fails to transform the run ends with a
\* non-zero exit status and no usable output is left: the destination is not
\* a readable container holding only part of the input.
C3_NoUsablePartialOutput ==
    \A v \in Variants :
        (Exited(v) /\ proc[v].exc \in TransformErrors) =>
            /\ proc[v].exit_code # 0
            /\ ~Readable(proc[v].dest)

\* C4: on the same well-formed input the streaming and the batch strategy
\* produce equivalent output: the same number of records in the same order,
\* equal eventType, eventId, timestamp, userId and itemsInCart at every
\* position, and a streaming totalValue that is the batch decimal times 100
\* rounded half-to-even.
C4_StrategiesEquivalent ==
    (Succeeded("avro") /\ Succeeded("fastavro")) =>
        LET s == proc["avro"].dest.records
            b == proc["fastavro"].dest.records
        IN  /\ Len(s) = Len(b)
            /\ \A i \in 1..Len(s) :
                /\ s[i].eventType = b[i].eventType
                /\ s[i].eventId = b[i].eventId
                /\ s[i].timestamp = b[i].timestamp
                /\ s[i].userId = b[i].userId
                /\ s[i].itemsInCart = b[i].itemsInCart
                /\ IsNearestEven(s[i].totalValue, Times100(b[i].totalValue))

\* C5: in both variants a run that succeeds exits only after the last record
\* has been written and the container flushed and closed, and on every exit
\* path the schema, JSON and Avro file handles that were opened are closed
\* before the process exits.
C5_ClosedBeforeExit ==
    \A v \in Variants :
        Exited(v) =>
            /\ proc[v].open = {}
            /\ Succeeded(v) =>
                /\ proc[v].opened = {"schema", "json", "avro"}
                /\ proc[v].buf = << >>
                /\ proc[v].dest.finalized
                /\ Len(proc[v].dest.records) = Len(input)

\* C6: in both variants, with any number of positional arguments other than
\* three the script prints the usage text to stderr and exits with status 1
\* before any file is opened: nothing is read and the destination is
\* neither created nor modified.
C6_UsageError ==
    \A v \in Variants :
        (argv_len # 4 /\ proc[v].pc # "start") =>
            /\ Exited(v)
            /\ proc[v].stderr = "usage"
            /\ proc[v].exit_code = 1
            /\ proc[v].opened = {}
            /\ proc[v].dest = NoDest
            /\ proc[v].lines = << >> /\ ~proc[v].schema

C6_Witness ==
    /\ argv_len = 5
    /\ \A v \in Variants : Exited(v) /\ proc[v].stderr = "usage"

\* C7: in python-avro, transform_record maps every decimal text totalValue to
\* the integer nearest to the value times 100, an exact midpoint going to the
\* even neighbour.
C7_ScaledHalfEven ==
    \A i \in 1..Len(Produced("avro")) :
        IsNearestEven(Produced("avro")[i].totalValue,
                      Times100(ParseDecimal(input[i].obj.totalValue)))

\* C8: in python-fastavro the destination is opened for writing only after
\* every input line has been transformed successfully; if transform_record
\* fails on any line the destination is left as it was and no record is
\* written.
C8_BatchOpensDestinationLast ==
    LET p == proc["fastavro"]
    IN  /\ p.dest.truncated =>
            /\ WellFormed(input)
            /\ p.transformed = Transforms("fastavro", input, Len(input))
            /\ "json" \in p.opened /\ "json" \notin p.open
        /\ p.exc \in TransformErrors => p.dest = NoDest /\ "avro" \notin p.opened

C8_Witness ==
    /\ Len(input) = 2
    /\ FirstBad("fastavro", input) = 2
    /\ Failed("fastavro")
    /\ proc["fastavro"].exc \in TransformErrors

C10_OrderOfFileOperations ==
    /\ \A v \in Variants :
        /\ proc[v].dest.truncated => proc[v].schema /\ "schema" \notin proc[v].open
        /\ schema_state # "ok" => proc[v].dest = NoDest /\ "avro" \notin proc[v].opened
    /\ "json" \in proc["avro"].opened => proc["avro"].dest.truncated
    /\ (Exited("avro") /\ proc["avro"].schema /\ dest_ok /\ ~json_ok)
            => proc["avro"].dest.truncated
    /\ ~json_ok => proc["fastavro"].dest = NoDest /\ "avro" \notin proc["fastavro"].opened

C10_Witness ==
    /\ ~json_ok /\ dest_ok
    /\ Failed("avro") /\ proc["avro"].dest.truncated
    /\ Failed("fastavro") /\ proc["fastavro"].dest = NoDest

-----------------------------------------------------------------------------
(* What does hold of the converted values.                                  *)

\* replace(tzinfo=utc) keeps the clock reading of every timestamp and tags it
\* UTC, so the instant is kept exactly when the text's offset is zero or absent.
TimestampKeepsClockReading ==
    \A v \in Variants : \A i \in 1..Len(Produced(v)) :
        LET parsed == parse(input[i].obj.timestamp)
            out    == Produced(v)[i].timestamp
        IN  /\ out.aware /\ out.utcoffset = 0 /\ out.wall = parsed.wall
            /\ (parsed.aware /\ parsed.utcoffset = 0) => Instant(out) = Instant(parsed)

\* shift(2) is a multiplication by 100 as long as the coefficient has at
\* most Prec - 2 digits, and the rounding is then half-to-even.
ScaledHalfEvenWithinPrecision ==
    \A i \in 1..Len(Produced("avro")) :
        LET d == ParseDecimal(input[i].obj.totalValue)
        IN  Len(d.digits) <= Prec - 2
                => IsNearestEven(Produced("avro")[i].totalValue, Times100(d))

\* A batch run leaves a readable destination only with all of the input.
BatchOutputIsWhole ==
    Readable(proc["fastavro"].dest)
        => proc["fastavro"].dest.records = Transforms("fastavro", input, Len(input))

\* Every exit path closes the schema and JSON files, python-fastavro closes
\* its destination on every path, and python-avro closes it when it succeeds.
ClosedExceptStreamingFailure ==
    \A v \in Variants :
        Exited(v) =>
            /\ proc[v].open \subseteq {"avro"}
            /\ (v = "fastavro" \/ Succeeded(v)) => proc[v].open = {}

====
